---------------------------- MODULE Spec2Model ----------------------------
(***************************************************************************)
(* The recurrence scheduling and delivery-retry engine of akwaabasmsbackend *)
(* (CronJobService, services/cron_job.service.ts, the node-cron variant).   *)
(*                                                                         *)
(* Time is counted in whole hours since 2024-01-01T00:00.  A Date is a     *)
(* natural number of hours; an absent Date (undefined / NULL) is None.     *)
(* The server's local zone has no daylight saving, so date-fns' addDays    *)
(* and Date.setHours are plain hour arithmetic.                            *)
(***************************************************************************)
EXTENDS Integers, Sequences, FiniteSets, TLC

None == -1

Day == 24

\* ------------------------------------------------------------------ bounds

\* Timer triggers over one behaviour.
MaxSweeps == 4
\* Timer triggers over one behaviour that fire while an earlier
\* runScheduledSMSJob has not returned.
MaxOverlaps == 1
\* Clock advances over one behaviour.
MaxTicks == 2
\* Database calls in a row that fail in the one outage of a behaviour.
MaxDbFaults == 2
\* Midnights over one behaviour of the node-schedule process.
MaxMidnights == 3
\* Daily runs of processScheduledMessages over one behaviour.
MaxRuns == 420

\* The rows of the recipients table, and the slots for runScheduledSMSJob
\* invocations in progress at the same time.
RecipientIds == {1, 2}
SweepIds == {1, 2}

\* ------------------------------------------------------- calendar (Date)

IsLeap(y) == (y % 4 = 0 /\ y % 100 # 0) \/ y % 400 = 0

DaysInYear(y) == IF IsLeap(y) THEN 366 ELSE 365

\* m is a JavaScript month index, 0..11.
DaysInMonth(y, m) ==
  IF m = 1 THEN (IF IsLeap(y) THEN 29 ELSE 28)
  ELSE IF m \in {3, 5, 8, 10} THEN 30 ELSE 31

EpochYear == 2024

RECURSIVE YearFrom(_, _)
YearFrom(y, d) ==
  IF d < 0 THEN YearFrom(y - 1, d + DaysInYear(y - 1))
  ELSE IF d < DaysInYear(y) THEN [year |-> y, doy |-> d]
  ELSE YearFrom(y + 1, d - DaysInYear(y))

RECURSIVE MonthFrom(_, _, _)
MonthFrom(y, m, d) ==
  IF d < DaysInMonth(y, m) THEN [month |-> m, date |-> d + 1]
  ELSE MonthFrom(y, m + 1, d - DaysInMonth(y, m))

RECURSIVE DaysBeforeYear(_)
DaysBeforeYear(y) ==
  IF y = EpochYear THEN 0
  ELSE IF y > EpochYear THEN DaysBeforeYear(y - 1) + DaysInYear(y - 1)
  ELSE DaysBeforeYear(y + 1) - DaysInYear(y)

RECURSIVE DaysBeforeMonth(_, _)
DaysBeforeMonth(y, m) ==
  IF m <= 0 THEN 0 ELSE DaysBeforeMonth(y, m - 1) + DaysInMonth(y, m - 1)

\* Date.getFullYear / getMonth / getDate / getHours of an instant t.
getFullYear(t) == YearFrom(EpochYear, t \div Day).year
getMonth(t) ==
  LET yd == YearFrom(EpochYear, t \div Day) IN MonthFrom(yd.year, 0, yd.doy).month
getDate(t) ==
  LET yd == YearFrom(EpochYear, t \div Day) IN MonthFrom(yd.year, 0, yd.doy).date
getHours(t) == t % Day

\* new Date(year, month, date, hours); month may be 12 or more and date may
\* be 0, as in new Date(y, m + 1, 0), the last day of month m.
NewDate(y, m, d, h) ==
  LET yy == y + (m \div 12)
      mm == m % 12
  IN (DaysBeforeYear(yy) + DaysBeforeMonth(yy, mm) + (d - 1)) * Day + h

\* ------------------------------------------------------------- date-fns

isAfter(date, dateToCompare) == date > dateToCompare

addDays(date, amount) == date + amount * Day

\* addMonths by Date.setMonth alone: a day that the target month does not
\* have rolls over into the following month.
addMonths_Rollover(date, amount) ==
  LET total == getFullYear(date) * 12 + getMonth(date) + amount IN
  NewDate(total \div 12, total % 12, 1, getHours(date)) + (getDate(date) - 1) * Day

\* date-fns addMonths: the same day of the month in the target month, or
\* the target month's last day when it has no such day; the time of day is
\* kept.
addMonths(date, amount) ==
  LET dayOfMonth == getDate(date)
      endOfDesiredMonth ==
        NewDate(getFullYear(date), getMonth(date) + amount + 1, 0, getHours(date))
      daysInMonth == getDate(endOfDesiredMonth)
  IN IF dayOfMonth >= daysInMonth THEN endOfDesiredMonth
     ELSE NewDate(getFullYear(endOfDesiredMonth), getMonth(endOfDesiredMonth),
                  dayOfMonth, getHours(date))

addYears(date, amount) == addMonths(date, amount * 12)


\* ------------------------------------------- recurrence (pure functions)

Frequencies == {"Daily", "Weekly", "Monthly", "Quarterly", "Annually"}

\* calculateNextSendDate with the start test the wrong way round
\* (isAfter(currentDate, startDate) ? startDate : undefined): a recipient
\* is not due at the very instant of its startDate.
calculateNextSendDate_StrictStart(lastSent, frequency, startDate, currentDate) ==
  IF lastSent = None
  THEN (IF isAfter(currentDate, startDate) THEN startDate ELSE None)
  ELSE CASE frequency = "Daily" -> addDays(lastSent, 1)
         [] frequency = "Weekly" -> addDays(lastSent, 7)
         [] frequency = "Monthly" -> addMonths(lastSent, 1)
         [] frequency = "Quarterly" -> addMonths(lastSent, 3)
         [] frequency = "Annually" -> addYears(lastSent, 1)
         [] OTHER -> None

\* calculateNextSendDate that skips the periods already missed: the next
\* date is the latest whole number of periods after lastSent that is not
\* after currentDate.
calculateNextSendDate_CatchUp(lastSent, frequency, startDate, currentDate) ==
  LET periods(hours) ==
        IF currentDate - lastSent >= hours THEN (currentDate - lastSent) \div hours ELSE 1
  IN
  IF lastSent = None
  THEN (IF isAfter(startDate, currentDate) THEN None ELSE startDate)
  ELSE CASE frequency = "Daily" -> addDays(lastSent, periods(Day))
         [] frequency = "Weekly" -> addDays(lastSent, 7 * periods(7 * Day))
         [] frequency = "Monthly" -> addMonths(lastSent, periods(31 * Day))
         [] frequency = "Quarterly" -> addMonths(lastSent, 3 * periods(92 * Day))
         [] frequency = "Annually" -> addYears(lastSent, periods(366 * Day))
         [] OTHER -> None

\* CronJobService.calculateNextSendDate; None is undefined.
calculateNextSendDate(lastSent, frequency, startDate, currentDate) ==
  IF lastSent = None
  THEN (IF isAfter(startDate, currentDate) THEN None ELSE startDate)
  ELSE CASE frequency = "Daily" -> addDays(lastSent, 1)
         [] frequency = "Weekly" -> addDays(lastSent, 7)
         [] frequency = "Monthly" ->
              LET nextMonth == addMonths(lastSent, 1) IN
              IF getMonth(nextMonth) # (getMonth(lastSent) + 1) % 12
              THEN NewDate(getFullYear(nextMonth), getMonth(nextMonth) + 1, 0, 0)
              ELSE nextMonth
         [] frequency = "Quarterly" -> addMonths(lastSent, 3)
         [] frequency = "Annually" -> addYears(lastSent, 1)
         [] OTHER -> None

\* processRecipient without its due test (lines 101-103).
processRecipientOutcome_NoDueGuard(recipient, currentDate) ==
  IF recipient.nextRetryAt # None /\ isAfter(recipient.nextRetryAt, currentDate)
  THEN "backoff"
  ELSE IF recipient.startDate = None THEN "no_start_date"
  ELSE LET nextSendDate ==
             calculateNextSendDate(recipient.lastSent, recipient.frequency,
                                   recipient.startDate, currentDate)
       IN IF nextSendDate = None THEN "no_next_send_date"
          ELSE IF ~recipient.schedule THEN "no_schedule"
          ELSE "send"

\* processRecipient without its first guard (lines 80-82).
processRecipientOutcome_NoBackoffGuard(recipient, currentDate) ==
  IF recipient.startDate = None THEN "no_start_date"
  ELSE LET nextSendDate ==
             calculateNextSendDate(recipient.lastSent, recipient.frequency,
                                   recipient.startDate, currentDate)
       IN IF nextSendDate = None THEN "no_next_send_date"
          ELSE IF isAfter(nextSendDate, currentDate) THEN "not_due"
          ELSE IF ~recipient.schedule THEN "no_schedule"
          ELSE "send"

\* The guards of processRecipient that come before the gateway call: which
\* return statement it leaves by, or "send" when it reaches sendSMS.
processRecipientOutcome(recipient, currentDate) ==
  IF recipient.nextRetryAt # None /\ isAfter(recipient.nextRetryAt, currentDate)
  THEN "backoff"
  ELSE IF recipient.startDate = None THEN "no_start_date"
  ELSE LET nextSendDate ==
             calculateNextSendDate(recipient.lastSent, recipient.frequency,
                                   recipient.startDate, currentDate)
       IN IF nextSendDate = None THEN "no_next_send_date"
          ELSE IF isAfter(nextSendDate, currentDate) THEN "not_due"
          ELSE IF ~recipient.schedule THEN "no_schedule"
          ELSE "send"

\* ------------------------------------------------------ retry / backoff

maxRetries == 3

\* retryDelays[retryAttempts - 1] || 24, in hours.
retryDelayHours(retryAttempts) ==
  CASE retryAttempts = 1 -> 2
    [] retryAttempts = 2 -> 6
    [] retryAttempts = 3 -> 24
    [] OTHER -> 24

\* handleRecipientError with retryAttempts > maxRetries for >=.
handleRecipientError_OffByOne(recipient, wallClock) ==
  LET attempts == recipient.retryAttempts + 1 IN
  IF attempts > maxRetries
  THEN [recipient EXCEPT !.retryAttempts = attempts,
                         !.isActive = FALSE,
                         !.nextRetryAt = None]
  ELSE [recipient EXCEPT !.retryAttempts = attempts,
                         !.nextRetryAt = wallClock + retryDelayHours(attempts)]

\* The assignments of handleRecipientError to the in-memory entity; wallClock
\* is new Date() at the time of the call.
handleRecipientError(recipient, wallClock) ==
  LET attempts == recipient.retryAttempts + 1 IN
  IF attempts >= maxRetries
  THEN [recipient EXCEPT !.retryAttempts = attempts,
                         !.isActive = FALSE,
                         !.nextRetryAt = None]
  ELSE [recipient EXCEPT !.retryAttempts = attempts,
                         !.nextRetryAt = wallClock + retryDelayHours(attempts)]

\* processRecipient recording the date that was due (lastSent = nextSendDate)
\* instead of the evaluation time.
markSent_DueDate(recipient, currentDate) ==
  [recipient EXCEPT !.lastSent =
                      calculateNextSendDate(recipient.lastSent, recipient.frequency,
                                            recipient.startDate, currentDate),
                    !.retryAttempts = 0,
                    !.nextRetryAt = None]

\* The assignments of processRecipient after sendSMS has resolved.
markSent(recipient, currentDate) ==
  [recipient EXCEPT !.lastSent = currentDate,
                    !.retryAttempts = 0,
                    !.nextRetryAt = None]

\* Repository.save(entity) on an existing row.  TypeORM leaves out of the
\* UPDATE every property whose value is undefined ("all undefined properties
\* are skipped"; a column is set to NULL only by assigning null), so a
\* nextRetryAt assigned undefined leaves the stored column as it was.
save(row, entity) ==
  [row EXCEPT !.lastSent = IF entity.lastSent = None THEN @ ELSE entity.lastSent,
              !.retryAttempts = entity.retryAttempts,
              !.nextRetryAt = IF entity.nextRetryAt = None THEN @ ELSE entity.nextRetryAt,
              !.isActive = entity.isActive]

\* date-fns-tz toZonedTime(date, 'Africa/Accra'): a Date whose local fields
\* read the wall clock of Accra (UTC+0).  On a server whose local zone is
\* offset hours ahead of UTC that is the instant date - offset.
toZonedTime(date, offset) == date - offset

\* ----------------------------------------------------------------- state

VARIABLES
  clock,     \* new Date(): the wall clock, in hours
  ticks,     \* clock advances so far
  tzOffset,  \* the server's local zone, hours ahead of UTC
  store,     \* the recipients table: id -> row
  sweeps,    \* the runScheduledSMSJob invocations: slot -> its locals
  started,   \* timer triggers so far
  overlaps,  \* those that fired while another sweep was running
  outcome,   \* id -> how the latest processRecipient for that row ended
  failStreak,\* id -> failed deliveries since the latest successful one
  dbFaults,  \* database calls that failed in the outage, 0 before it
  calc,      \* inputs and result of one evaluation of a pure function
  schedules,     \* the schedule table: the ids in it
  scheduledJobs, \* node-schedule's registry: the names of the jobs in it
  initializing,  \* initializeSchedules invocations waiting for their find
  midnights,     \* midnights since the process started
  listening,     \* whether scheduleBackgroundJobs has been called
  scheduledMessage, \* the scheduled_message row SchedulerService works on
  today,         \* new Date() of the latest processScheduledMessages run
  attempted,     \* whether that run called sendWithRetry for the row
  runs           \* processScheduledMessages runs so far

registryVars == <<schedules, scheduledJobs, initializing, midnights, listening>>

schedulerVars == <<scheduledMessage, today, attempted, runs>>

vars == <<clock, ticks, tzOffset, store, sweeps, started, overlaps, outcome,
          failStreak, dbFaults, calc, registryVars, schedulerVars>>

\* 2024-01-11T00:00 and the hour of the daily trigger ("10 22 * * *").
Today == 10 * Day
Clock0 == Today + 22

\* Local zones of the server: UTC, and one west of Accra.
ServerOffsets == {0, -3}

Row(frequency, startDate, lastSent, isActive, schedule) ==
  [frequency |-> frequency, startDate |-> startDate, lastSent |-> lastSent,
   retryAttempts |-> 0, nextRetryAt |-> None, isActive |-> isActive,
   schedule |-> schedule]

\* The row the enrolment handlers (createScheduledMessages, sendSMS) insert
\* at time now: phone, frequency, lastSent = new Date(), schedule and
\* message type are assigned; startDate is not, and isActive and
\* retryAttempts take the column defaults false and 0.
createRecipient(frequency, now) == Row(frequency, None, now, FALSE, TRUE)

\* Rows of the recipients table at start-up.  No handler of the service sets
\* startDate or isActive, so active rows come from outside it (direct table
\* administration); the enrolment handlers insert rows with lastSent = now,
\* no startDate and the column default isActive = false.
InitRows ==
  { Row("Daily", Today, None, TRUE, TRUE),           \* never sent, due today
    Row("Weekly", Today, None, TRUE, TRUE),          \* never sent, due today
    Row("Daily", 0, Clock0 - 5 * Day, TRUE, TRUE),   \* five periods behind
    createRecipient("Daily", Clock0 - Day) }         \* enrolled a day ago

IdleSweep ==
  [pc |-> "idle", currentDate |-> None, recipients |-> <<>>, i |-> 0,
   log |-> "none", processedCount |-> 0]

CalcOff == [phase |-> "off"]

\* SchedulerService without a scheduled message.
SchedulerOff ==
  /\ scheduledMessage = [frequency |-> "Daily", startDate |-> None,
                         endDate |-> None, active |-> FALSE]
  /\ today = None
  /\ attempted = FALSE
  /\ runs = 0

\* The node-schedule process of cron_job.service, not started.
RegistryOff ==
  /\ schedules = {}
  /\ scheduledJobs = {}
  /\ initializing = 0
  /\ midnights = 0
  /\ listening = FALSE

Init ==
  /\ clock = Clock0
  /\ ticks = 0
  /\ tzOffset \in ServerOffsets
  /\ store \in [RecipientIds -> InitRows]
  /\ sweeps = [s \in SweepIds |-> IdleSweep]
  /\ started = 0
  /\ overlaps = 0
  /\ outcome = [r \in RecipientIds |-> "none"]
  /\ failStreak = [r \in RecipientIds |-> 0]
  /\ dbFaults = 0
  /\ calc = CalcOff
  /\ RegistryOff
  /\ SchedulerOff

\* ------------------------------------------------------------- the sweep

\* recipientRepo.find({ where: { isActive: true } }): the entities of the
\* active rows from id on, in id order.
RECURSIVE findActive(_, _)
findActive(rows, id) ==
  IF id \notin RecipientIds THEN <<>>
  ELSE (IF rows[id].isActive THEN <<rows[id] @@ [id |-> id]>> ELSE <<>>)
       \o findActive(rows, id + 1)

Running(s) == sweeps[s].pc \in {"loop", "sending"}

\* The entity the for loop of sweep s is at, recipients[i].  The loop never
\* returns to an earlier index, so the model keeps only the entities from
\* index i on: recipients is the rest of the array.
Current(s) == Head(sweeps[s].recipients)

\* The for loop of sweep s has entities left (i < recipients.length).
InLoop(s) == sweeps[s].pc = "loop" /\ sweeps[s].recipients # <<>>

\* The timer fires: runScheduledSMSJob up to the for loop (lines 30-45).
\* node-cron starts the callback whether or not an earlier run has returned.
RunScheduledSMSJob(s) ==
  /\ started < MaxSweeps
  /\ ~Running(s)
  /\ \A t \in SweepIds : t < s => Running(t)
  /\ \A t \in SweepIds : Running(t) => sweeps[t].pc = "loop"
  /\ started' = started + 1
  /\ IF \E t \in SweepIds : Running(t)
     THEN overlaps < MaxOverlaps /\ overlaps' = overlaps + 1
     ELSE overlaps' = overlaps
  /\ sweeps' = [sweeps EXCEPT ![s] =
       [pc |-> "loop",
        currentDate |-> toZonedTime(clock, tzOffset),
        recipients |-> findActive(store, 1),
        i |-> 0,
        log |-> "started",
        processedCount |-> 0]]
  /\ UNCHANGED <<clock, ticks, tzOffset, store, outcome, failStreak, dbFaults, calc, registryVars, schedulerVars>>

\* One iteration of the for loop up to the first await of processRecipient
\* that leaves the process: the staggered delay has elapsed, the guards are
\* evaluated, and either processRecipient returns { success: false } or the
\* request to the gateway is on its way.
ProcessRecipient(s) ==
  /\ InLoop(s)
  /\ LET result == processRecipientOutcome(Current(s), sweeps[s].currentDate) IN
     /\ outcome' = [outcome EXCEPT ![Current(s).id] = result]
     /\ IF result = "send"
        THEN sweeps' = [sweeps EXCEPT ![s].pc = "sending"]
        ELSE sweeps' = [sweeps EXCEPT ![s].recipients = Tail(@),
                                      ![s].i = @ + 1,
                                      ![s].processedCount = @ + 1]
  /\ UNCHANGED <<clock, ticks, tzOffset, store, started, overlaps, failStreak, dbFaults, calc, registryVars, schedulerVars>>

\* sendSMS resolves: lines 130-146 and 55-56.
SendSucceeds(s) ==
  /\ sweeps[s].pc = "sending"
  /\ LET entity == markSent(Current(s), sweeps[s].currentDate) IN
     /\ store' = [store EXCEPT ![entity.id] = save(@, entity)]
     /\ sweeps' = [sweeps EXCEPT ![s].pc = "loop",
                                 ![s].recipients = Tail(@),
                                 ![s].i = @ + 1,
                                 ![s].processedCount = @ + 1]
     /\ outcome' = [outcome EXCEPT ![entity.id] = "sent"]
     /\ failStreak' = [failStreak EXCEPT ![entity.id] = 0]
  /\ UNCHANGED <<clock, ticks, tzOffset, started, overlaps, dbFaults, calc, registryVars, schedulerVars>>

\* sendSMS rejects: lines 147-149 (handleRecipientError) and 56.
SendFails(s) ==
  /\ sweeps[s].pc = "sending"
  /\ LET entity == handleRecipientError(Current(s), clock) IN
     /\ store' = [store EXCEPT ![entity.id] = save(@, entity)]
     /\ sweeps' = [sweeps EXCEPT ![s].pc = "loop",
                                 ![s].recipients = Tail(@),
                                 ![s].i = @ + 1,
                                 ![s].processedCount = @ + 1]
     /\ outcome' = [outcome EXCEPT ![entity.id] = "failed"]
     /\ failStreak' = [failStreak EXCEPT ![entity.id] = @ + 1]
  /\ UNCHANGED <<clock, ticks, tzOffset, started, overlaps, dbFaults, calc, registryVars, schedulerVars>>

\* The for loop is over: lines 63-66.
CompleteJob(s) ==
  /\ sweeps[s].pc = "loop"
  /\ sweeps[s].recipients = <<>>
  /\ sweeps' = [sweeps EXCEPT ![s] =
       [IdleSweep EXCEPT !.pc = "done",
                         !.log = "completed",
                         !.processedCount = sweeps[s].processedCount]]
  /\ UNCHANGED <<clock, ticks, tzOffset, store, started, overlaps, outcome,
                 failStreak, dbFaults, calc, registryVars, schedulerVars>>

\* Sweep s is in the staggered delay before a recipient other than the
\* first: await this.delay(i * batchDelaySeconds * 1000) with i > 0.
AtDelay(s) ==
  /\ InLoop(s)
  /\ sweeps[s].i > 0

\* Hours by which the wall clock moves in one step: between sweeps any of
\* them, during a sweep's staggered delay the smallest.
TickHours == {2, 24, 6 * Day}
StaggerHours == {2}

\* Time passes.  Database calls and the gateway request (timeout: 10000)
\* take no whole hour, so the clock moves only while every running sweep
\* waits in its staggered delay.  The time of day at which a sweep reads
\* the clock is not fixed: the timer callback starts late by a varying
\* amount, which the grid of hours magnifies.
Tick(h) ==
  /\ ticks < MaxTicks
  /\ \A s \in SweepIds : Running(s) => AtDelay(s) /\ h \in StaggerHours
  /\ ticks' = ticks + 1
  /\ clock' = clock + h
  /\ UNCHANGED <<tzOffset, store, sweeps, started, overlaps, outcome, failStreak, dbFaults, calc, registryVars, schedulerVars>>

Next ==
  \/ \E s \in SweepIds : RunScheduledSMSJob(s)
  \/ \E s \in SweepIds : ProcessRecipient(s)
  \/ \E s \in SweepIds : SendSucceeds(s)
  \/ \E s \in SweepIds : SendFails(s)
  \/ \E s \in SweepIds : CompleteJob(s)
  \/ \E h \in TickHours : Tick(h)

Spec == Init /\ [][Next]_vars

\* The same system when every trigger finds the previous sweep finished.
NoSweepRunning == \A s \in SweepIds : ~Running(s)

SerialNext ==
  \/ \E s \in SweepIds : NoSweepRunning /\ RunScheduledSMSJob(s)
  \/ \E s \in SweepIds : ProcessRecipient(s)
  \/ \E s \in SweepIds : SendSucceeds(s)
  \/ \E s \in SweepIds : SendFails(s)
  \/ \E s \in SweepIds : CompleteJob(s)
  \/ \E h \in TickHours : Tick(h)

SerialSpec == Init /\ [][SerialNext]_vars


\* ------------------------------------------------- the gateway's answers

\* What the gateway does with a request: "success" is a 2xx response whose
\* body has the success Status, "rejected" a 2xx response whose body has
\* another Status, "error" a transport error, a timeout or a non-2xx
\* response.
HubtelAnswers == {"success", "rejected", "error"}

\* HubtelSMS.makeHubtelRequest: TRUE when it returns.  axios.get rejects on
\* "error" only, and response.data is returned without a look at Status.
makeHubtelRequest(answer) == answer # "error"

\* The step of sweep s in which the gateway gives the answer and sendSMS
\* settles, with the database at work.
Answered(s, answer) ==
  /\ sweeps[s].pc = "sending"
  /\ IF makeHubtelRequest(answer) THEN SendSucceeds(s) ELSE SendFails(s)

\* ------------------------------------------------------ database faults

\* The database calls a handler makes are numbered in the order it makes
\* them; failing is the set of the numbers of those that reject.  A fault
\* is an outage: some consecutive calls, once in a behaviour.
DbCalls == 1..8

FaultWindows ==
  { from..(from + n - 1) : from \in DbCalls, n \in 1..MaxDbFaults }

\* HubtelSMS.sendSMS: whether it resolves, and the database calls it made.
\* The request is followed by logSMS (call 1); when that rejects after a
\* request that returned, the catch block logs again (call 2) and throws.
hubtelSendSMS(answer, failing) ==
  IF makeHubtelRequest(answer)
  THEN (IF 1 \in failing THEN [resolved |-> FALSE, calls |-> 2]
                         ELSE [resolved |-> TRUE, calls |-> 1])
  ELSE [resolved |-> FALSE, calls |-> 1]

\* What follows an error thrown while a recipient is handled, k being the
\* number of the next database call.  level 1 is the catch of
\* processRecipient (line 147), level 2 the catch in the for loop (line 57),
\* both calling handleRecipientError on the same entity object: save is
\* call k, logSMS call k + 1, and either rejecting throws to the next
\* level.  Level 3 is the catch around the sweep (line 67): the sweep ends,
\* and its CronLog is saved as "failed" by call k or stays as it was.
RECURSIVE errorPath(_, _, _, _, _, _)
errorPath(level, recipient, row, k, failing, wallClock) ==
  IF level > 2
  THEN [row |-> row, audit |-> "none", counted |-> FALSE, calls |-> k,
        ended |-> IF k \in failing THEN "started" ELSE "failed"]
  ELSE LET entity == handleRecipientError(recipient, wallClock) IN
       IF k \in failing
       THEN errorPath(level + 1, entity, row, k + 1, failing, wallClock)
       ELSE IF k + 1 \in failing
       THEN errorPath(level + 1, entity, save(row, entity), k + 2, failing, wallClock)
       ELSE [row |-> save(row, entity), audit |-> "failed",
             counted |-> level = 1, calls |-> k + 1, ended |-> "no"]

\* processRecipient from the gateway call on (lines 123-150) and the catch
\* blocks it can throw to: the stored row afterwards, the audit record
\* written by CronJobService.logSMS, whether processedCount++ was reached,
\* the database calls made, and how the sweep ended if it did.
processSend(recipient, row, answer, failing, wallClock, currentDate) ==
  LET sent == hubtelSendSMS(answer, failing)
      k == sent.calls + 1
      entity == markSent(recipient, currentDate)
  IN  IF ~sent.resolved
      THEN errorPath(1, recipient, row, k, failing, wallClock)
      ELSE IF k \in failing
      THEN errorPath(1, entity, row, k + 1, failing, wallClock)
      ELSE IF k + 1 \in failing
      THEN errorPath(1, entity, save(row, entity), k + 2, failing, wallClock)
      ELSE [row |-> save(row, entity), audit |-> "sent",
            counted |-> TRUE, calls |-> k + 1, ended |-> "no"]

\* A sweep that has ended; log is the status of its CronLog row.
EndedSweep(status, processedCount) ==
  [IdleSweep EXCEPT !.pc = "done", !.log = status, !.processedCount = processedCount]

\* The gateway answers while some database calls of the handling reject.
SendWithDbFault(s, answer, failing) ==
  /\ sweeps[s].pc = "sending"
  /\ dbFaults = 0
  /\ dbFaults' = Cardinality(failing)
  /\ LET id == Current(s).id
         r == processSend(Current(s), store[id], answer, failing, clock,
                          sweeps[s].currentDate)
     IN  /\ failing \subseteq 1..r.calls
         /\ store' = [store EXCEPT ![id] = r.row]
         /\ outcome' = [outcome EXCEPT ![id] =
                          IF r.audit = "none" THEN "aborted" ELSE r.audit]
         /\ failStreak' = [failStreak EXCEPT ![id] =
                             IF makeHubtelRequest(answer) THEN 0 ELSE @ + 1]
         /\ sweeps' = [sweeps EXCEPT ![s] =
              IF r.ended = "no"
              THEN [@ EXCEPT !.pc = "loop",
                             !.recipients = Tail(@),
                             !.i = @ + 1,
                             !.processedCount = IF r.counted THEN @ + 1 ELSE @]
              ELSE EndedSweep(r.ended, 0)]
  /\ UNCHANGED <<clock, ticks, tzOffset, started, overlaps, calc, registryVars, schedulerVars>>

\* The timer fires and the database is out.  Call 1 is the save of the new
\* CronLog (line 35), outside the try block: runScheduledSMSJob rejects with
\* no row created.  Call 2 is find (line 38): the catch around the sweep
\* saves the CronLog as "failed" (call 3) or fails to.
RunScheduledSMSJobDbFault(s, failing) ==
  /\ started < MaxSweeps
  /\ NoSweepRunning
  /\ s = 1
  /\ failing \in {{1}, {2}, {2, 3}}
  /\ dbFaults = 0
  /\ dbFaults' = Cardinality(failing)
  /\ started' = started + 1
  /\ sweeps' = [sweeps EXCEPT ![s] =
       EndedSweep(IF 1 \in failing THEN "none"
                  ELSE IF 3 \in failing THEN "started" ELSE "failed", 0)]
  /\ UNCHANGED <<clock, ticks, tzOffset, store, overlaps, outcome, failStreak, calc, registryVars, schedulerVars>>

\* The for loop is over and the save of the completed CronLog (line 66,
\* call 1) rejects: the catch around the sweep saves it as "failed"
\* (line 70, call 2) or fails to.
CompleteJobDbFault(s, failing) ==
  /\ sweeps[s].pc = "loop"
  /\ sweeps[s].recipients = <<>>
  /\ failing \in {{1}, {1, 2}}
  /\ dbFaults = 0
  /\ dbFaults' = Cardinality(failing)
  /\ sweeps' = [sweeps EXCEPT ![s] =
       EndedSweep(IF 2 \in failing THEN "started" ELSE "failed", 0)]
  /\ UNCHANGED <<clock, ticks, tzOffset, store, started, overlaps, outcome,
                 failStreak, calc, registryVars, schedulerVars>>

DbFault ==
  \/ \E s \in SweepIds : \E failing \in FaultWindows : RunScheduledSMSJobDbFault(s, failing)
  \/ \E s \in SweepIds : \E answer \in HubtelAnswers : \E failing \in FaultWindows :
       SendWithDbFault(s, answer, failing)
  \/ \E s \in SweepIds : \E failing \in FaultWindows : CompleteJobDbFault(s, failing)

\* Sweeps that do not overlap, on a database that can fail.
FaultNext ==
  \/ SerialNext
  \/ DbFault

\* The server runs in UTC and every recipient is active and never sent to.
FaultInit ==
  /\ Init
  /\ tzOffset = 0
  /\ \A r \in RecipientIds : store[r].isActive /\ store[r].lastSent = None

FaultSpec == FaultInit /\ [][FaultNext]_vars

\* ------------------------------------------------------------ liveness

\* Sweeps that do not overlap, with a gateway that accepts every message
\* and a database that works: the timer keeps firing for ever and every
\* await returns.
\* The timer goes on firing after the triggers that started counts: the
\* same start of a sweep, not counted.
RunScheduledSMSJobAgain(s) ==
  /\ started = MaxSweeps
  /\ NoSweepRunning
  /\ s = 1
  /\ sweeps' = [sweeps EXCEPT ![s] =
       [pc |-> "loop",
        currentDate |-> toZonedTime(clock, tzOffset),
        recipients |-> findActive(store, 1),
        i |-> 0,
        log |-> "started",
        processedCount |-> 0]]
  /\ UNCHANGED <<clock, ticks, tzOffset, store, started, overlaps, outcome,
                 failStreak, dbFaults, calc, registryVars, schedulerVars>>

LiveNext ==
  \/ \E s \in SweepIds : NoSweepRunning /\ RunScheduledSMSJob(s)
  \/ \E s \in SweepIds : RunScheduledSMSJobAgain(s)
  \/ \E s \in SweepIds : ProcessRecipient(s)
  \/ \E s \in SweepIds : SendSucceeds(s)
  \/ \E s \in SweepIds : CompleteJob(s)
  \/ \E h \in TickHours : Tick(h)

LiveSpec == Init /\ [][LiveNext]_vars /\ WF_vars(LiveNext)

\* ------------------------------------- the pure functions on their own

\* The success transition of processRecipient (lines 130-133) on the entity
\* object and on the stored row it is saved to.
\* Date.setDate / setMonth / setFullYear on a copy of date: the other
\* fields are kept and an out-of-range day rolls over into the next month.
setDate(date, dayValue) ==
  NewDate(getFullYear(date), getMonth(date), dayValue, getHours(date))
setMonth(date, monthValue) ==
  NewDate(getFullYear(date), monthValue, getDate(date), getHours(date))
setFullYear(date, yearValue) ==
  NewDate(yearValue, getMonth(date), getDate(date), getHours(date))

\* CronJobService.getDateRange(frequency, endDate).
getDateRange(frequency, endDate) ==
  [startDate |->
     CASE frequency = "Daily" -> setDate(endDate, getDate(endDate) - 1)
       [] frequency = "Weekly" -> setDate(endDate, getDate(endDate) - 7)
       [] frequency = "Monthly" -> setMonth(endDate, getMonth(endDate) - 1)
       [] frequency = "Quarterly" -> setMonth(endDate, getMonth(endDate) - 3)
       [] frequency = "Annually" -> setFullYear(endDate, getFullYear(endDate) - 1)
       [] OTHER -> setDate(endDate, getDate(endDate) - 1),
   endDate |-> endDate]

MessageTypes == {"Admin Summary", "User Summary"}

MonthNames ==
  <<"January", "February", "March", "April", "May", "June", "July", "August",
    "September", "October", "November", "December">>

\* date-fns format(date, 'MMMM d') and format(date, 'MMMM d, yyyy').
formatMonthDay(date) ==
  MonthNames[getMonth(date) + 1] \o " " \o ToString(getDate(date))
formatMonthDayYear(date) ==
  formatMonthDay(date) \o ", " \o ToString(getFullYear(date))

formatDateRange(dateRange, frequency) ==
  IF frequency = "Daily" THEN "on " \o formatMonthDayYear(dateRange.endDate)
  ELSE "from " \o formatMonthDay(dateRange.startDate) \o " to "
         \o formatMonthDayYear(dateRange.endDate)

toLowerCase(frequency) ==
  CASE frequency = "Daily" -> "daily"
    [] frequency = "Weekly" -> "weekly"
    [] frequency = "Monthly" -> "monthly"
    [] frequency = "Quarterly" -> "quarterly"
    [] frequency = "Annually" -> "annually"
    [] frequency = "Hourly" -> "hourly"
    [] frequency = "Weekdays" -> "weekdays"
    [] frequency = "Weekends" -> "weekends"

\* A template is the sequence of its literal stretches and bracketed tokens.
getAdminTemplate(frequency) ==
  <<"Hi Admin, here's the ", toLowerCase(frequency), " attendance report for ",
    "[ScheduleName]", " ", "[DateRange]", ".\n",
    "Total Attendees: ", "[ClockIns]", "\n",
    "Late Comers: ", "[LateTotal]", "\n",
    "Absentees: ", "[AbsentTotal]", "\n",
    "Total Work Hours: ", "[TotalWorkHours]", "\n",
    "From ", "[ClientName]">>

getUserTemplate(frequency) ==
  <<"Hi ", "[FirstName]", ", here's your ", toLowerCase(frequency),
    " attendance report for ", "[ScheduleName]", " ", "[DateRange]", ".\n",
    "Clock Ins: ", "[ClockIns]", "\n",
    "Clock Outs: ", "[ClockOuts]", "\n",
    "Late Days: ", "[LateDays]", "\n",
    "Absent Days: ", "[AbsentDays]", "\n",
    "From ", "[ClientName]">>

RECURSIVE joinPieces(_)
joinPieces(pieces) ==
  IF pieces = <<>> THEN "" ELSE Head(pieces) \o joinPieces(Tail(pieces))

\* CronJobService.formatMessage; firstName "" stands for the omitted argument.
formatMessage(template, scheduleName, dateRange, frequency, clientName, firstName) ==
  LET formattedDateRange == formatDateRange(dateRange, frequency)
      replace(piece) ==
        CASE piece = "[ScheduleName]" -> scheduleName
          [] piece = "[DateRange]" -> formattedDateRange
          [] piece \in {"[ClockIns]", "[ClockOuts]", "[LateDays]", "[LateTotal]",
                        "[AbsentDays]", "[AbsentTotal]", "[TotalWorkHours]"} -> "0"
          [] piece = "[ClientName]" -> clientName
          [] piece = "[FirstName]" -> IF firstName = "" THEN "User" ELSE firstName
          [] OTHER -> piece
  IN joinPieces([i \in 1..Len(template) |-> replace(template[i])])

\* The content processRecipient hands to smsService.sendSMS.
messageFor(recipient, currentDate) ==
  LET range == getDateRange(recipient.frequency, currentDate) IN
  formatMessage(IF recipient.messageType = "Admin Summary"
                  THEN getAdminTemplate(recipient.frequency)
                  ELSE getUserTemplate(recipient.frequency),
                recipient.scheduleName, range, recipient.frequency,
                "Organization", "")

\* date-fns subDays, subMonths, startOfMonth, endOfMonth and
\* format(date, 'yyyy-MM-dd').
subDays(date, amount) == addDays(date, -amount)
subMonths(date, amount) == addMonths(date, -amount)
startOfMonth(date) == NewDate(getFullYear(date), getMonth(date), 1, 0)
endOfMonth(date) == NewDate(getFullYear(date), getMonth(date) + 1, 0, 23)

padStart2(n) == IF n < 10 THEN "0" \o ToString(n) ELSE ToString(n)

formatIsoDate(date) ==
  ToString(getFullYear(date)) \o "-" \o padStart2(getMonth(date) + 1)
    \o "-" \o padStart2(getDate(date))

\* getDateRange(frequency, lastSent) of utils/date, with new Date() = now;
\* a thrown error is the result's error field.
utilsGetDateRange(frequency, lastSent, now) ==
  LET range(startDate, endDate) ==
        [error |-> "", startDate |-> formatIsoDate(startDate),
         endDate |-> formatIsoDate(endDate)]
  IN CASE frequency = "Daily" ->
            range(IF lastSent # None THEN lastSent ELSE subDays(now, 1), now)
       [] frequency = "Weekly" ->
            range(IF lastSent # None THEN lastSent ELSE subDays(now, 7), now)
       [] frequency = "Monthly" ->
            LET startDate == IF lastSent # None THEN lastSent
                             ELSE startOfMonth(subMonths(now, 1))
            IN range(startDate, endOfMonth(startDate))
       [] frequency = "Quarterly" ->
            range(IF lastSent # None THEN lastSent
                  ELSE startOfMonth(subMonths(now, 3)),
                  endOfMonth(subMonths(now, 1)))
       [] OTHER -> [error |-> "Invalid frequency", startDate |-> "", endDate |-> ""]

onSuccess(row, recipient, currentDate) ==
  LET entity == markSent(recipient, currentDate) IN
  [entity |-> entity, row |-> save(row, entity)]


\* Instants and anchor dates the recurrence functions are evaluated on:
\* month ends of every length, a leap day, and ordinary days, over two years.
CalcInstants ==
  { NewDate(2024, 0, 1, 0),   NewDate(2024, 0, 8, 0),   NewDate(2024, 0, 31, 10),
    NewDate(2024, 1, 29, 22), NewDate(2024, 2, 1, 0),   NewDate(2024, 2, 31, 9),
    NewDate(2024, 4, 31, 0),  NewDate(2024, 7, 31, 22), NewDate(2024, 10, 30, 23),
    NewDate(2024, 11, 31, 22), NewDate(2025, 1, 28, 22), NewDate(2025, 11, 31, 23) }

CalcStartDates ==
  { NewDate(2024, 0, 1, 0), NewDate(2024, 0, 31, 0), NewDate(2024, 2, 1, 0),
    NewDate(2025, 0, 1, 0) }

\* The frequency column is a free string.
CalcFrequencies == Frequencies \cup {"Hourly"}

\* Schedule.name is a free string column.
CalcScheduleNames == {"HQ", "Head Office Morning Shift"}

CalcInputs ==
  [frequency : CalcFrequencies,
   startDate : CalcStartDates \cup {None},
   lastSent : CalcInstants \cup {None},
   retryAttempts : {0},
   nextRetryAt : {None, NewDate(2024, 2, 1, 2)},
   isActive : {TRUE},
   schedule : BOOLEAN,
   scheduleName : CalcScheduleNames,
   messageType : MessageTypes]

CalcInit ==
  /\ clock = Clock0
  /\ ticks = 0
  /\ tzOffset = 0
  /\ store = [r \in RecipientIds |-> Row("Daily", None, None, FALSE, TRUE)]
  /\ sweeps = [s \in SweepIds |-> IdleSweep]
  /\ started = 0
  /\ overlaps = 0
  /\ outcome = [r \in RecipientIds |-> "none"]
  /\ failStreak = [r \in RecipientIds |-> 0]
  /\ dbFaults = 0
  /\ calc \in [phase : {"input"}, recipient : CalcInputs, currentDate : CalcInstants]
  /\ RegistryOff
  /\ SchedulerOff

\* processRecipient(recipient, currentDate) up to the gateway call (its
\* reporting window and, when it sends, the content), its success
\* transition applied once and twice to the row as loaded, and the range
\* utils/date computes for the same frequency, lastSent and instant.
CalcEvaluate ==
  /\ calc.phase = "input"
  /\ calc' = [phase |-> "output",
              recipient |-> calc.recipient,
              currentDate |-> calc.currentDate,
              nextSendDate |->
                IF calc.recipient.startDate = None THEN None
                ELSE calculateNextSendDate(calc.recipient.lastSent,
                                           calc.recipient.frequency,
                                           calc.recipient.startDate,
                                           calc.currentDate),
              outcome |-> processRecipientOutcome(calc.recipient, calc.currentDate),
              window |-> getDateRange(calc.recipient.frequency, calc.currentDate),
              range |-> utilsGetDateRange(calc.recipient.frequency,
                                          calc.recipient.lastSent, calc.currentDate),
              message |->
                IF processRecipientOutcome(calc.recipient, calc.currentDate) = "send"
                THEN messageFor(calc.recipient, calc.currentDate) ELSE "",
              once |-> onSuccess(calc.recipient, calc.recipient, calc.currentDate),
              twice |->
                LET first == onSuccess(calc.recipient, calc.recipient, calc.currentDate)
                IN  onSuccess(first.row, first.entity, calc.currentDate)]
  /\ UNCHANGED <<clock, ticks, tzOffset, store, sweeps, started, overlaps, outcome,
                 failStreak, dbFaults, registryVars, schedulerVars>>

CalcNext == CalcEvaluate

CalcSpec == CalcInit /\ [][CalcNext]_vars

\* --------------------------------------- ScheduleService.formatMessage

\* value.toString() of a string, number or boolean.
toString(value) ==
  CASE value.type = "string" -> value.string
    [] value.type = "number" -> ToString(value.number)
    [] value.type = "boolean" -> IF value.boolean THEN "true" ELSE "false"

\* The pattern new RegExp(`\\[${key}\\]`, 'g') matches.
tokenOf(key) == "[" \o key \o "]"

\* message.replace(new RegExp(...), value.toString()): every piece that is
\* the key's token becomes the value's string.
replaceAll(message, key, value) ==
  [i \in 1..Len(message) |->
     IF message[i] = tokenOf(key) THEN toString(value) ELSE message[i]]

RECURSIVE replaceEntries(_, _)
replaceEntries(message, entries) ==
  IF entries = <<>> THEN message
  ELSE replaceEntries(replaceAll(message, Head(entries).key, Head(entries).value),
                      Tail(entries))

scheduleFormatMessage_AtLeast160(data, template) ==
  LET message == joinPieces(replaceEntries(template, data)) IN
  IF Len(message) >= 160
  THEN [error |-> "Formatted message exceeds 160 character limit", message |-> ""]
  ELSE [error |-> "", message |-> message]

\* ScheduleService.formatMessage(data, template); data is the sequence
\* Object.entries(data), and a thrown error is the result's error field.
scheduleFormatMessage(data, template) ==
  LET message == joinPieces(replaceEntries(template, data)) IN
  IF Len(message) > 160
  THEN [error |-> "Formatted message exceeds 160 character limit", message |-> ""]
  ELSE [error |-> "", message |-> message]

StringValue(s) == [type |-> "string", string |-> s, number |-> 0, boolean |-> FALSE]
NumberValue(n) == [type |-> "number", string |-> "", number |-> n, boolean |-> FALSE]
BooleanValue(b) == [type |-> "boolean", string |-> "", number |-> 0, boolean |-> b]

\* Values as the attendance summary computes them: names, counts and flags.
FormatKeys == {"FirstName", "ClockIns"}
FormatValues ==
  {StringValue("Ama"), StringValue("Kwabena Mensah-Bonsu"), NumberValue(0),
   NumberValue(5), NumberValue(12), BooleanValue(TRUE)}
FormatEntries == [key : FormatKeys, value : FormatValues]
FormatData ==
  {<<>>} \cup {<<e>> : e \in FormatEntries}
    \cup {<<e, f>> : <<e, f>> \in {p \in FormatEntries \X FormatEntries :
                                      p[1].key # p[2].key}}

\* Templates as sequences of literal stretches and bracketed tokens: the
\* spec's example, one with a repeated and an unknown token, one whose
\* result is 160 characters long with a three-letter name and a one-digit
\* count, and one without tokens.
FormatTemplates ==
  { <<"Hi ", "[FirstName]", ", you had ", "[ClockIns]", " clock-ins">>,
    <<"[FirstName]", " ", "[LastName]", ": ", "[ClockIns]", "/", "[ClockIns]">>,
    <<"Dear members, this is your attendance summary for the period that has just ended. ",
      "Please contact the office of your organisation if a figure looks wrong. ",
      "[FirstName]", ": ", "[ClockIns]">>,
    <<"No report today">> }

FormatInit ==
  /\ clock = Clock0
  /\ ticks = 0
  /\ tzOffset = 0
  /\ store = [r \in RecipientIds |-> Row("Daily", None, None, FALSE, TRUE)]
  /\ sweeps = [s \in SweepIds |-> IdleSweep]
  /\ started = 0
  /\ overlaps = 0
  /\ outcome = [r \in RecipientIds |-> "none"]
  /\ failStreak = [r \in RecipientIds |-> 0]
  /\ dbFaults = 0
  /\ calc \in [phase : {"input"}, data : FormatData, template : FormatTemplates]
  /\ RegistryOff
  /\ SchedulerOff

FormatEvaluate ==
  /\ calc.phase = "input"
  /\ calc' = [phase |-> "output",
              data |-> calc.data,
              template |-> calc.template,
              result |-> scheduleFormatMessage(calc.data, calc.template)]
  /\ UNCHANGED <<clock, ticks, tzOffset, store, sweeps, started, overlaps, outcome,
                 failStreak, dbFaults, registryVars, schedulerVars>>

FormatNext == FormatEvaluate

FormatSpec == FormatInit /\ [][FormatNext]_vars

\* ------------------------------- cron_job.service (node-schedule registry)

ScheduleIds == {1, 2, 3}

sweepVars == <<clock, ticks, tzOffset, store, sweeps, started, overlaps, outcome,
               failStreak, dbFaults, calc>>

\* The name node-schedule gives the job of cron.scheduleJob("0 0 * * *", ...),
\* and the name scheduleSMSJob gives a schedule's delivery job.
AnonymousJob == "<Anonymous Job 1>"
jobName(id) == "schedule-" \o ToString(id)

\* scheduleBackgroundJobs: the call of initializeSchedules runs up to its
\* await of scheduleRepo.find, then the midnight job is registered.
ScheduleBackgroundJobs ==
  /\ ~listening
  /\ listening' = TRUE
  /\ initializing' = initializing + 1
  /\ scheduledJobs' = scheduledJobs \cup {AnonymousJob}
  /\ UNCHANGED <<schedules, midnights, sweepVars, schedulerVars>>

\* initializeSchedules after its find has answered: every job in
\* cron.scheduledJobs is cancelled, which takes it out of the registry,
\* and one delivery job is scheduled for each schedule found.
initializeSchedules ==
  /\ initializing > 0
  /\ initializing' = initializing - 1
  /\ scheduledJobs' = {jobName(id) : id \in schedules}
  /\ UNCHANGED <<schedules, midnights, listening, sweepVars, schedulerVars>>

\* Midnight: the job "0 0 * * *" fires if it is in the registry, and calls
\* initializeSchedules, which runs up to its await.
Midnight ==
  /\ listening
  /\ midnights < MaxMidnights
  /\ midnights' = midnights + 1
  /\ initializing' =
       IF AnonymousJob \in scheduledJobs THEN initializing + 1 ELSE initializing
  /\ UNCHANGED <<schedules, scheduledJobs, listening, sweepVars, schedulerVars>>

\* ScheduleService.createSchedule.
createSchedule(id) ==
  /\ id \notin schedules
  /\ schedules' = schedules \cup {id}
  /\ UNCHANGED <<scheduledJobs, initializing, midnights, listening, sweepVars, schedulerVars>>

RegistryInit ==
  /\ clock = Clock0
  /\ ticks = 0
  /\ tzOffset = 0
  /\ store = [r \in RecipientIds |-> Row("Daily", None, None, FALSE, TRUE)]
  /\ sweeps = [s \in SweepIds |-> IdleSweep]
  /\ started = 0
  /\ overlaps = 0
  /\ outcome = [r \in RecipientIds |-> "none"]
  /\ failStreak = [r \in RecipientIds |-> 0]
  /\ dbFaults = 0
  /\ calc = CalcOff
  /\ schedules \in SUBSET ScheduleIds
  /\ scheduledJobs = {}
  /\ initializing = 0
  /\ midnights = 0
  /\ listening = FALSE
  /\ SchedulerOff

RegistryNext ==
  \/ ScheduleBackgroundJobs
  \/ initializeSchedules
  \/ Midnight
  \/ \E id \in ScheduleIds : createSchedule(id)

RegistrySpec == RegistryInit /\ [][RegistryNext]_vars

\* ---------------------------------------------------- SchedulerService

\* date-fns startOfDay, endOfDay, differenceInDays (full days, for a left
\* date that is not before the right one) and Date.getDay (0 is Sunday;
\* 2024-01-01 was a Monday).
startOfDay(date) == (date \div Day) * Day
endOfDay(date) == (date \div Day) * Day + 23
differenceInDays(dateLeft, dateRight) == (dateLeft - dateRight) \div Day
getDay(date) == ((date \div Day) + 1) % 7

isSameMonthlyDate(currentDate, startDate) ==
  /\ getDate(currentDate) = getDate(startDate)
  /\ getMonth(currentDate) = getMonth(startDate)

isSameQuarterlyDate(currentDate, startDate) ==
  /\ isSameMonthlyDate(currentDate, startDate)
  /\ getMonth(currentDate) \div 3 = getMonth(startDate) \div 3

isSameAnnualDate(currentDate, startDate) ==
  /\ getDate(currentDate) = getDate(startDate)
  /\ getMonth(currentDate) = getMonth(startDate)

isWeekday(date) == getDay(date) > 0 /\ getDay(date) < 6
isWeekend(date) == getDay(date) = 0 \/ getDay(date) = 6

\* SchedulerService.shouldSendToday: what it returns, and whether it sets
\* the row's active column to false on the way.
shouldSendToday(message, date) ==
  IF date < message.startDate THEN [send |-> FALSE, deactivate |-> FALSE]
  ELSE IF message.endDate # None /\ date > message.endDate
  THEN [send |-> FALSE, deactivate |-> TRUE]
  ELSE
    LET daysSinceStart == differenceInDays(date, message.startDate)
        frequency == toLowerCase(message.frequency)
    IN [send |->
          CASE frequency = "daily" -> TRUE
            [] frequency = "weekly" -> daysSinceStart % 7 = 0
            [] frequency = "monthly" -> isSameMonthlyDate(date, message.startDate)
            [] frequency = "quarterly" -> isSameQuarterlyDate(date, message.startDate)
            [] frequency = "annually" -> isSameAnnualDate(date, message.startDate)
            [] frequency = "weekdays" -> isWeekday(date)
            [] frequency = "weekends" -> isWeekend(date)
            [] OTHER -> FALSE,
        deactivate |-> FALSE]

\* The where clause of processScheduledMessages' find; a comparison with a
\* null end_date is not true in SQL.
findScheduled(message, date) ==
  /\ message.active
  /\ message.startDate <= endOfDay(date)
  /\ message.endDate # None
  /\ message.endDate >= startOfDay(date)

\* The hour of CronExpression.EVERY_DAY_AT_8AM, and the day before the
\* first run, 2024-01-09.
RunHour == 8
FirstRun == NewDate(2024, 0, 9, RunHour)

\* One run of processScheduledMessages, a day after the one before.
processScheduledMessages ==
  /\ runs < MaxRuns
  /\ runs' = runs + 1
  /\ today' = addDays(FirstRun, runs + 1)
  /\ LET found == findScheduled(scheduledMessage, today')
         should == shouldSendToday(scheduledMessage, today')
     IN /\ attempted' = (found /\ should.send)
        /\ scheduledMessage' =
             IF found /\ should.deactivate
             THEN [scheduledMessage EXCEPT !.active = FALSE]
             ELSE scheduledMessage
  /\ UNCHANGED <<sweepVars, registryVars>>

SchedulerFrequencies == Frequencies \cup {"Weekdays", "Weekends", "Hourly"}

ScheduledMessages ==
  [frequency : SchedulerFrequencies,
   startDate : {NewDate(2024, 0, 15, 0), NewDate(2024, 0, 31, 9)},
   endDate : {None, NewDate(2024, 5, 30, 0), NewDate(2025, 1, 28, 0)},
   active : {TRUE}]

SchedulerInit ==
  /\ clock = Clock0
  /\ ticks = 0
  /\ tzOffset = 0
  /\ store = [r \in RecipientIds |-> Row("Daily", None, None, FALSE, TRUE)]
  /\ sweeps = [s \in SweepIds |-> IdleSweep]
  /\ started = 0
  /\ overlaps = 0
  /\ outcome = [r \in RecipientIds |-> "none"]
  /\ failStreak = [r \in RecipientIds |-> 0]
  /\ dbFaults = 0
  /\ calc = CalcOff
  /\ RegistryOff
  /\ scheduledMessage \in ScheduledMessages
  /\ today = None
  /\ attempted = FALSE
  /\ runs = 0

SchedulerNext == processScheduledMessages

SchedulerSpec == SchedulerInit /\ [][SchedulerNext]_vars


\* ================================================================ claims

\* The calendar date (day number) of an instant.
DateOf(t) == t \div Day

\* The entity sweep s is at, when the step is its SendFails / SendSucceeds /
\* ProcessRecipient step.
FailsOn(s) == sweeps[s].pc = "sending" /\ SendFails(s)
SucceedsOn(s) == sweeps[s].pc = "sending" /\ SendSucceeds(s)
ProcessesOn(s) == InLoop(s) /\ ProcessRecipient(s)

\* C1 (as claimed): from retryAttempts = 0, the first, second and third
\* consecutive failure handled by handleRecipientError leave the recipient
\* active with nextRetryAt 2, 6 and 24 hours after the failure; only the
\* fourth sets active = false.
C1_BackoffLadder ==
  [][\A s \in SweepIds :
       FailsOn(s) =>
         LET id == Current(s).id
             n == failStreak'[id]
         IN  Current(s).retryAttempts = n - 1 =>
               /\ n \in {1, 2, 3} =>
                    /\ store'[id].isActive
                    /\ store'[id].nextRetryAt = clock + retryDelayHours(n)
               /\ n = 4 => ~store'[id].isActive]_vars

\* C2: when sweeps do not overlap, a recipient that started with
\* retryAttempts = 0 and whose delivery failed in three sweeps in a row is
\* inactive, and no later sweep loads it or sends to it: an inactive
\* recipient is in no sweep's batch and has no fourth failure or later send.
C2_ThreeFailedSweepsDeactivate ==
  \A r \in RecipientIds :
    /\ failStreak[r] >= 3 => ~store[r].isActive
    /\ ~store[r].isActive =>
         /\ failStreak[r] \in {0, 3}
         /\ outcome[r] \in {"none", "failed"}
         /\ \A s \in SweepIds : \A k \in DOMAIN sweeps[s].recipients :
              sweeps[s].recipients[k].id # r

\* C2 witness: a recipient deactivated by its third failed sweep, and the
\* fourth sweep under way.
C2_Witness ==
  \E r \in RecipientIds : \E s \in SweepIds :
    /\ failStreak[r] = 3
    /\ ~store[r].isActive
    /\ started = 4
    /\ Running(s)

\* C3 (as claimed): whenever a sweep hands a recipient to sendSMS, that
\* recipient is active in the store at that moment.
C3_ActiveAtSend ==
  [][\A s \in SweepIds :
       (ProcessesOn(s) /\ sweeps'[s].pc = "sending") =>
         store[Current(s).id].isActive]_vars

\* C4 (as claimed): after the success branch of processRecipient has saved
\* the recipient, the stored row has retryAttempts = 0, no nextRetryAt and
\* lastSent = the sweep's evaluation time.
C4_SuccessResetsRetryState ==
  [][\A s \in SweepIds :
       SucceedsOn(s) =>
         LET id == Current(s).id IN
         /\ store'[id].retryAttempts = 0
         /\ store'[id].nextRetryAt = None
         /\ store'[id].lastSent = sweeps[s].currentDate]_vars

\* C5: when processRecipient is given a recipient whose nextRetryAt is set
\* and later than the sweep's evaluation time, it makes no gateway call and
\* the stored row (retryAttempts, nextRetryAt, lastSent, isActive) is as it
\* was.
C5_BackoffSkipped ==
  [][\A s \in SweepIds :
       (/\ ProcessesOn(s)
        /\ Current(s).nextRetryAt # None
        /\ Current(s).nextRetryAt > sweeps[s].currentDate) =>
         /\ sweeps'[s].pc = "loop"
         /\ outcome'[Current(s).id] = "backoff"
         /\ store'[Current(s).id] = store[Current(s).id]]_vars

\* C5 witness: a sweep has passed over a recipient in backoff.
C5_Witness ==
  \E r \in RecipientIds :
    /\ outcome[r] = "backoff"
    /\ store[r].retryAttempts \in {1, 2}
    /\ store[r].isActive

\* C6 (as claimed): a recipient whose startDate is later than the evaluation
\* time is not due, whatever its lastSent is.
C6_FutureStartNeverDue ==
  (/\ calc.phase = "output"
   /\ calc.recipient.startDate # None
   /\ calc.recipient.startDate > calc.currentDate) =>
    calc.outcome # "send"

\* C7: for a recipient with lastSent = null and a startDate A,
\* calculateNextSendDate yields a date that is not after the evaluation
\* time exactly when the evaluation time is at or after A; with no backoff
\* and a schedule, processRecipient reaches the send exactly then.
C7_FirstSendDueIffStarted ==
  (/\ calc.phase = "output"
   /\ calc.recipient.lastSent = None
   /\ calc.recipient.startDate # None) =>
    LET started_ == calc.currentDate >= calc.recipient.startDate
        due == calc.nextSendDate # None /\ ~(calc.nextSendDate > calc.currentDate)
    IN  /\ due <=> started_
        /\ (calc.recipient.nextRetryAt = None /\ calc.recipient.schedule) =>
             (calc.outcome = "send" <=> started_)

\* C7 witness: evaluated at the very instant of startDate, never sent: due.
C7_Witness ==
  /\ calc.phase = "output"
  /\ calc.recipient.lastSent = None
  /\ calc.recipient.startDate = calc.currentDate
  /\ calc.outcome = "send"

\* Months since year 0 of the month an instant falls in.
MonthIndex(t) == 12 * getFullYear(t) + getMonth(t)

\* next is base moved forward by the given number of calendar months: it
\* falls in that later month, at the same time of day, on the same day of
\* the month or on the month's last day when the month is shorter.
IsMonthsAfter(next, base, months) ==
  /\ MonthIndex(next) = MonthIndex(base) + months
  /\ getHours(next) = getHours(base)
  /\ LET last == DaysInMonth(getFullYear(next), getMonth(next)) IN
     getDate(next) = IF getDate(base) > last THEN last ELSE getDate(base)

\* C8: for a recipient with a non-null lastSent, calculateNextSendDate is
\* lastSent plus exactly one period (1 day, 7 days, 1 month, 3 months,
\* 1 year), whatever the evaluation time and the startDate are.
C8_NextIsLastSentPlusOnePeriod ==
  (/\ calc.phase = "output"
   /\ calc.recipient.lastSent # None
   /\ calc.recipient.startDate # None
   /\ calc.recipient.frequency \in Frequencies) =>
    LET lastSent == calc.recipient.lastSent
        frequency == calc.recipient.frequency
        next == calc.nextSendDate
    IN  /\ next # None
        /\ frequency = "Daily" => next = lastSent + Day
        /\ frequency = "Weekly" => next = lastSent + 7 * Day
        /\ frequency = "Monthly" => IsMonthsAfter(next, lastSent, 1)
        /\ frequency = "Quarterly" => IsMonthsAfter(next, lastSent, 3)
        /\ frequency = "Annually" => IsMonthsAfter(next, lastSent, 12)

\* C8 witness: a Daily recipient many periods behind gets lastSent + 1 day.
C8_Witness ==
  /\ calc.phase = "output"
  /\ calc.recipient.frequency = "Daily"
  /\ calc.recipient.lastSent # None
  /\ calc.currentDate > calc.recipient.lastSent + 5 * Day
  /\ calc.nextSendDate = calc.recipient.lastSent + Day

\* A lower bound, in hours, of one period of a frequency.
MinPeriodHours(frequency) ==
  CASE frequency = "Daily" -> Day
    [] frequency = "Weekly" -> 7 * Day
    [] frequency = "Monthly" -> 28 * Day
    [] frequency = "Quarterly" -> 89 * Day
    [] frequency = "Annually" -> 365 * Day

\* C9: when sweeps do not overlap, a successful send to a recipient that is
\* any number of periods behind stores lastSent = the evaluation time, and
\* from that row the recipient is not due at the evaluation time nor at any
\* time less than one period after it: one send, no back-filling.
C9_NoBackfill ==
  [][\A s \in SweepIds :
       SucceedsOn(s) =>
         LET id == Current(s).id
             now == sweeps[s].currentDate
             row == store'[id] @@ [id |-> id]
             clear == [row EXCEPT !.nextRetryAt = None]
         IN  /\ store'[id].lastSent = now
             /\ \A t \in {now, now + 1, now + MinPeriodHours(row.frequency) - 1} :
                  processRecipientOutcome(clear, t) = "not_due"]_vars

\* C9 witness: the recipient that was five periods behind has been sent to
\* once and a later sweep has found it not due.
C9_Witness ==
  \E r \in RecipientIds :
    /\ store[r].startDate = 0
    /\ store[r].lastSent # None
    /\ store[r].lastSent > Clock0 - 5 * Day
    /\ outcome[r] = "not_due"

\* C10 (as claimed): a Weekly recipient activated on date D with lastSent =
\* null is due in a sweep on date D and gets lastSent on date D; once sent
\* on D it is not due in sweeps on dates before D + 7 and is due in a sweep
\* on date D + 7.
C10_WeeklyScenario ==
  [][\A s \in SweepIds :
       (/\ ProcessesOn(s)
        /\ Current(s).frequency = "Weekly"
        /\ Current(s).startDate # None
        /\ Current(s).nextRetryAt = None
        /\ Current(s).schedule) =>
         LET e == Current(s)
             D == DateOf(e.startDate)
             onDate == DateOf(sweeps[s].currentDate)
             due == outcome'[e.id] = "send"
         IN  /\ (e.lastSent = None /\ onDate = D) => due
             /\ (e.lastSent # None /\ DateOf(e.lastSent) = D) =>
                  /\ onDate < D + 7 => ~due
                  /\ onDate = D + 7 => due]_vars

\* Months a frequency moves lastSent forward by; 0 for the day-based ones.
PeriodMonths(frequency) ==
  CASE frequency = "Monthly" -> 1
    [] frequency = "Quarterly" -> 3
    [] frequency = "Annually" -> 12
    [] OTHER -> 0

\* C11: for Monthly, Quarterly and Annually, when the target month has no
\* day with lastSent's day-of-month, calculateNextSendDate yields the last
\* day of the target month; in every case the result lies in the target
\* month and never in the month after it.
C11_EndOfMonthClamp ==
  (/\ calc.phase = "output"
   /\ calc.recipient.lastSent # None
   /\ calc.recipient.startDate # None
   /\ PeriodMonths(calc.recipient.frequency) > 0) =>
    LET lastSent == calc.recipient.lastSent
        target == MonthIndex(lastSent) + PeriodMonths(calc.recipient.frequency)
        last == DaysInMonth(target \div 12, target % 12)
        next == calc.nextSendDate
    IN  /\ next # None
        /\ MonthIndex(next) = target
        /\ getDate(lastSent) > last => getDate(next) = last
        /\ getDate(next) <= getDate(lastSent)

\* C11 witness: a day 31, 30 or 29 moved into a month that lacks it.
C11_Witness ==
  /\ calc.phase = "output"
  /\ calc.recipient.lastSent # None
  /\ calc.recipient.startDate # None
  /\ PeriodMonths(calc.recipient.frequency) > 0
  /\ calc.nextSendDate # None
  /\ getDate(calc.nextSendDate) < getDate(calc.recipient.lastSent)

\* C12 (as claimed): when the gateway's answer to a send is anything but an
\* explicit success, the sweep applies the failure transition: retryAttempts
\* goes up by one, lastSent is not set, and the audit record is not "sent".
C12_NonSuccessIsFailure ==
  [][\A s \in SweepIds : \A answer \in HubtelAnswers \ {"success"} :
       Answered(s, answer) =>
         LET id == Current(s).id IN
         /\ store'[id].retryAttempts = Current(s).retryAttempts + 1
         /\ store'[id].lastSent = store[id].lastSent
         /\ outcome'[id] = "failed"]_vars

\* C13 (as claimed): when the gateway delivered the message and the
\* handling of the recipient fails on a database write (the recipient row or
\* the audit record), the stored retryAttempts, nextRetryAt and active flag
\* are as they were and the recipient is due at the next day's sweep.
C13_OnlyDeliveryFailuresCount ==
  [][\A s \in SweepIds : \A failing \in FaultWindows :
       SendWithDbFault(s, "success", failing) =>
         LET id == Current(s).id
             after == store'[id] @@ [id |-> id]
         IN  /\ store'[id].retryAttempts = store[id].retryAttempts
             /\ store'[id].nextRetryAt = store[id].nextRetryAt
             /\ store'[id].isActive = store[id].isActive
             /\ processRecipientOutcome(after, sweeps[s].currentDate + 7 * Day) = "send"]_vars

\* C14 (as claimed): a step of a running sweep takes at most the current
\* recipient off its batch, whatever error the handling of that recipient
\* raised: the recipients loaded after it are still to be processed.
C14_ErrorsDoNotAbortSweep ==
  [][\A s \in SweepIds :
       Running(s) =>
         Len(sweeps'[s].recipients) >= Len(sweeps[s].recipients) - 1]_vars

\* C15 (as claimed): a timer trigger that finds a sweep running does not
\* start another one beside it, so no two sweeps are ever inside
\* processRecipient for the same recipient at the same time.
C15_NoConcurrentProcessing ==
  \A s \in SweepIds : \A t \in SweepIds \ {s} :
    ~(/\ sweeps[s].pc = "sending"
      /\ sweeps[t].pc = "sending"
      /\ Current(s).id = Current(t).id)

\* C16 (as claimed): no step replaces a stored lastSent that is non-null by
\* an earlier value or by null.
C16_LastSentMonotonic ==
  [][\A r \in RecipientIds :
       store[r].lastSent # None =>
         /\ store'[r].lastSent # None
         /\ store'[r].lastSent >= store[r].lastSent]_vars

\* A step in which the write of sweep s's own CronLog is what rejects.
CronLogWriteFails(s) ==
  \E failing \in FaultWindows :
    RunScheduledSMSJobDbFault(s, failing) \/ CompleteJobDbFault(s, failing)

\* C17 (as claimed): a sweep's CronLog starts as "started"; a sweep that had
\* loaded its recipients ends with the CronLog "completed" and the count of
\* processed recipients, however the handling of the individual recipients
\* went; and a CronLog that is "completed" or "failed" keeps its status.
\* Steps in which the CronLog write itself is rejected are left aside.
C17_CronLogLifecycle ==
  [][\A s \in SweepIds :
       ~CronLogWriteFails(s) =>
         /\ (~Running(s) /\ Running(s)') => sweeps'[s].log = "started"
         /\ (Running(s) /\ Running(s)') => sweeps'[s].log = "started"
         /\ (Running(s) /\ ~Running(s)') =>
              /\ sweeps'[s].log = "completed"
              /\ sweeps'[s].processedCount = sweeps[s].processedCount
         /\ (sweeps[s].pc = "done" /\ sweeps'[s].pc = "done") =>
              sweeps'[s].log = sweeps[s].log]_vars

\* C18 (as claimed): no step of the scheduler turns a stored active = false
\* into active = true, and no sweep hands an inactive recipient to the
\* gateway.
C18_DeactivatedIsTerminal ==
  [][\A r \in RecipientIds :
       ~store[r].isActive =>
         /\ ~store'[r].isActive
         /\ \A s \in SweepIds :
              (ProcessesOn(s) /\ Current(s).id = r) => sweeps'[s].pc # "sending"]_vars

\* C19 (as claimed): when handleRecipientError sets nextRetryAt, the stored
\* value is strictly later than the evaluation time of the sweep that
\* processed the recipient, so processRecipient at that same evaluation time
\* would skip the recipient as in backoff.
C19_RetryAfterEvaluationTime ==
  [][\A s \in SweepIds :
       (FailsOn(s) /\ Current(s).retryAttempts + 1 < maxRetries) =>
         LET id == Current(s).id
             after == store'[id] @@ [id |-> id]
         IN  /\ after.nextRetryAt # None
             /\ after.nextRetryAt > sweeps[s].currentDate
             /\ processRecipientOutcome(after, sweeps[s].currentDate) = "backoff"]_vars

\* The stored row of r is as the enrolment handlers created it.
Enrolled(r) == store[r] = createRecipient(store[r].frequency, store[r].lastSent)

\* C20 (as claimed): with sweeps firing and the gateway accepting, a
\* recipient enrolled through the service whose period has elapsed is
\* eventually sent its recurring message by a sweep.
C20_EnrolledEventuallySent ==
  \A r \in RecipientIds :
    (Enrolled(r) /\ clock >= store[r].lastSent + MinPeriodHours(store[r].frequency))
      ~> (outcome[r] = "sent")

\* C21: with a working database and sweeps that do not overlap, the batch
\* of a sweep holds a recipient at most once, so a sweep sends it at most
\* one message; and a send succeeds for a recipient only when at least one
\* full period of its frequency has passed since the stored lastSent, the
\* time of its previous successful send.
C21_OneSendPerPeriod ==
  [][\A s \in SweepIds :
       /\ Running(s)' =>
            \A j, k \in DOMAIN sweeps'[s].recipients :
              sweeps'[s].recipients[j].id = sweeps'[s].recipients[k].id => j = k
       /\ SucceedsOn(s) =>
            LET id == Current(s).id
                previous == store[id].lastSent
            IN  /\ \A k \in DOMAIN sweeps'[s].recipients :
                     sweeps'[s].recipients[k].id # id
                /\ previous # None =>
                     sweeps[s].currentDate >=
                       previous + MinPeriodHours(store[id].frequency)]_vars

\* C21 witness: a sweep is sending to a recipient whose lastSent was stored
\* by the successful send of an earlier sweep (every lastSent of the start
\* is before Clock0).
C21_Witness ==
  \E s \in SweepIds :
    /\ sweeps[s].pc = "sending"
    /\ Current(s).lastSent # None
    /\ Current(s).lastSent >= Clock0
    /\ store[Current(s).id].lastSent = Current(s).lastSent

\* C22 (as claimed): for a recipient that reaches the send, the success
\* transition applied twice with the same evaluation time leaves the same
\* recipient state, in memory and stored, as applied once: retryAttempts = 0,
\* nextRetryAt cleared and lastSent = the evaluation time.
C22_SuccessIdempotent ==
  (calc.phase = "output" /\ calc.outcome = "send") =>
    /\ calc.twice = calc.once
    /\ calc.once.row.retryAttempts = 0
    /\ calc.once.row.nextRetryAt = None
    /\ calc.once.row.lastSent = calc.currentDate
    /\ calc.once.entity.retryAttempts = 0
    /\ calc.once.entity.nextRetryAt = None
    /\ calc.once.entity.lastSent = calc.currentDate

\* C23 (as claimed): the audit record that CronJobService.logSMS writes
\* after a send matches the gateway's answer: "sent" after an explicit
\* success, "failed" after any other answer.
C23_AuditMatchesAnswer ==
  [][\A s \in SweepIds : \A answer \in HubtelAnswers :
       Answered(s, answer) =>
         outcome'[Current(s).id] = IF answer = "success" THEN "sent" ELSE "failed"]_vars

\* The gateway's limit on the content of one message.
MaxContentLength == 160

\* C24 (as claimed): every content processRecipient hands to sendSMS has at
\* most 160 characters.
C24_ContentWithinLimit ==
  (calc.phase = "output" /\ calc.outcome = "send") =>
    Len(calc.message) <= MaxContentLength

\* C25 (as claimed): the reporting window of a recipient that was sent to
\* before starts at its lastSent, for every frequency.
C25_WindowStartsAtLastSent ==
  (calc.phase = "output" /\ calc.outcome = "send"
     /\ calc.recipient.lastSent # None) =>
    calc.window.startDate = calc.recipient.lastSent

\* The calendar month, quarter and year before the ones now lies in, as
\* first and last day.
PreviousCalendarMonth(now) ==
  [error |-> "",
   startDate |-> formatIsoDate(NewDate(getFullYear(now), getMonth(now) - 1, 1, 0)),
   endDate |-> formatIsoDate(NewDate(getFullYear(now), getMonth(now), 0, 0))]
PreviousCalendarQuarter(now) ==
  LET first == 3 * (getMonth(now) \div 3) - 3 IN
  [error |-> "",
   startDate |-> formatIsoDate(NewDate(getFullYear(now), first, 1, 0)),
   endDate |-> formatIsoDate(NewDate(getFullYear(now), first + 3, 0, 0))]
PreviousCalendarYear(now) ==
  [error |-> "",
   startDate |-> formatIsoDate(NewDate(getFullYear(now) - 1, 0, 1, 0)),
   endDate |-> formatIsoDate(NewDate(getFullYear(now) - 1, 11, 31, 0))]

\* C26 (as claimed): with lastSent absent, getDateRange of utils/date returns
\* the full previous calendar month for Monthly, the full previous calendar
\* quarter for Quarterly and the full previous calendar year for Annually.
C26_PreviousCalendarPeriod ==
  (calc.phase = "output" /\ calc.recipient.lastSent = None) =>
    /\ calc.recipient.frequency = "Monthly" =>
         calc.range = PreviousCalendarMonth(calc.currentDate)
    /\ calc.recipient.frequency = "Quarterly" =>
         calc.range = PreviousCalendarQuarter(calc.currentDate)
    /\ calc.recipient.frequency = "Annually" =>
         calc.range = PreviousCalendarYear(calc.currentDate)

\* The template with each token whose name is a key of data replaced by the
\* string form of that key's value, and every other piece as it is.
Substituted(data, template) ==
  [i \in 1..Len(template) |->
     IF \E j \in 1..Len(data) : template[i] = "[" \o data[j].key \o "]"
     THEN LET j == CHOOSE j \in 1..Len(data) : template[i] = "[" \o data[j].key \o "]"
          IN  CASE data[j].value.type = "string" -> data[j].value.string
                [] data[j].value.type = "number" -> ToString(data[j].value.number)
                [] data[j].value.type = "boolean" ->
                     IF data[j].value.boolean THEN "true" ELSE "false"
     ELSE template[i]]

C28_ReinitStaysRegistered ==
  (listening /\ initializing = 0) => AnonymousJob \in scheduledJobs

\* Whole months from the month of startDate to the month of date.
MonthsSince(date, startDate) ==
  12 * (getFullYear(date) - getFullYear(startDate))
    + getMonth(date) - getMonth(startDate)

\* The days the claim names: within startDate..endDate, on the start's day
\* of the month, every month or every third month.
OnAnniversary(message, date, months) ==
  /\ message.startDate <= date
  /\ date <= message.endDate
  /\ getDate(date) = getDate(message.startDate)
  /\ MonthsSince(date, message.startDate) % months = 0

\* C29 (as claimed): a daily run of processScheduledMessages sends an active
\* Monthly message exactly on the start day's anniversary of every calendar
\* month from startDate to endDate, and a Quarterly one exactly on that of
\* every third month.
C29_MonthlyEveryMonth ==
  (today # None /\ scheduledMessage.endDate # None) =>
    /\ scheduledMessage.frequency = "Monthly" =>
         (attempted <=> OnAnniversary(scheduledMessage, today, 1))
    /\ scheduledMessage.frequency = "Quarterly" =>
         (attempted <=> OnAnniversary(scheduledMessage, today, 3))

\* C30 (as claimed): in every stored state, an active recipient has
\* retryAttempts in {0, 1, 2}; a recipient with a nextRetryAt is active with
\* retryAttempts in {1, 2}; and a recipient the sweeps have deactivated has
\* retryAttempts >= 3 and no nextRetryAt.
C30_RetryStateInvariant ==
  \A r \in RecipientIds :
    LET row == store[r] IN
    /\ row.isActive => row.retryAttempts \in 0..2
    /\ row.nextRetryAt # None => (row.isActive /\ row.retryAttempts \in 1..2)
    /\ (~row.isActive /\ outcome[r] # "none") =>
         (row.retryAttempts >= maxRetries /\ row.nextRetryAt = None)

=============================================================================
